---- MODULE Spec2Model ----
(***************************************************************************)
(* Model of outcomeMatrixToKillMatrix.py: the conversion of a test-outcome *)
(* matrix into a kill matrix.                                              *)
(*                                                                         *)
(* A string is a sequence of lexical units.  A unit is either one          *)
(* character class representative (an identifier run, a digit, ".", ":",   *)
(* " ", "(", ")", a newline) or one of the two literals the regular        *)
(* expressions of the program look for (" at " and ".java:").  The units   *)
(* are chosen so that two unit sequences are equal exactly when the        *)
(* strings they spell are equal.                                           *)
(***************************************************************************)
EXTENDS Integers, Sequences, FiniteSets, TLC

(***************************************************************************)
(* Bounds of the model.                                                    *)
(***************************************************************************)
MaxMutantId == 2
MaxMutated == 2
MaxRecords == 3
MaxLines == 3

PASS == "PASS"
FAIL == "FAIL"
CRASH == "CRASH"

(***************************************************************************)
(* Character classes of the regular expressions.                           *)
(***************************************************************************)
Digits == {"1", "3", "7", "8"}
WordUnits == {"NPE", "AE", "Foo", "Bar"} \cup Digits
TypeUnits == WordUnits \cup {"."}

DigitValue(d) == CASE d = "1" -> 1 [] d = "3" -> 3 [] d = "7" -> 7 [] d = "8" -> 8

Max(S) == CHOOSE x \in S : \A y \in S : y <= x

Min(S) == CHOOSE x \in S : \A y \in S : x <= y

\* Length of the longest prefix of s whose units all lie in class.
PrefixRun(s, class) == Max({n \in 0..Len(s) : \A i \in 1..n : s[i] \in class})

\* re.match(r'[\w.$]+', trace): the greedy run of type characters.  The
\* literal ".java:" spells ".java" in type characters before its colon.
distill_type(trace) ==
  LET n == PrefixRun(trace, TypeUnits)
      partial == IF n < Len(trace) /\ trace[n + 1] = ".java:" THEN <<".java">> ELSE <<>>
      matched == SubSeq(trace, 1, n) \o partial
  IN IF matched # <<>> THEN matched ELSE trace

\* The end (index of ")") of a match of
\*   ' at [\w.$]+\([^)]*\.java:\d+\)' starting at index k of trace, or 0.
FrameEnd(trace, k) ==
  IF k > Len(trace) \/ trace[k] # " at " THEN 0
  ELSE LET rest == SubSeq(trace, k + 1, Len(trace))
           w == PrefixRun(rest, TypeUnits)
           open == k + w + 1
       IN IF w = 0 \/ open > Len(trace) \/ trace[open] # "(" THEN 0
          ELSE LET closes == {c \in (open + 1)..Len(trace) : trace[c] = ")"}
               IN IF closes = {} THEN 0
                  ELSE LET close == Min(closes)
                           inner == SubSeq(trace, open + 1, close - 1)
                           d == Max({n \in 0..Len(inner) :
                                       \A i \in 1..n : inner[Len(inner) + 1 - i] \in Digits})
                       IN IF d >= 1 /\ Len(inner) > d /\ inner[Len(inner) - d] = ".java:"
                          THEN close ELSE 0

\* The starts of ' at ' at which the frame pattern matches; '.' does not
\* match a newline, so the text before the start holds none.
FrameStarts(trace) ==
  {k \in 1..Len(trace) : /\ FrameEnd(trace, k) # 0
                         /\ \A i \in 1..(k - 1) : trace[i] # "\n"}

distill_type_message(trace) ==
  IF FrameStarts(trace) = {} THEN trace
  ELSE SubSeq(trace, 1, Min(FrameStarts(trace)) - 1)

\* Returns the pair (first_line, location) on a match and the trace itself
\* otherwise; a pair never equals a string.
distill_type_message_location(trace) ==
  IF FrameStarts(trace) = {} THEN [kind |-> "str", first_line |-> trace, location |-> <<>>]
  ELSE LET k == Min(FrameStarts(trace))
       IN [kind |-> "tuple",
           first_line |-> SubSeq(trace, 1, k - 1),
           location |-> SubSeq(trace, k + 1, FrameEnd(trace, k))]

Str(s) == [kind |-> "str", first_line |-> s, location |-> <<>>]

DistillingSchemes == {"all", "type", "type+message", "type+message+location", "exact"}

TableWithLocation(scheme, trace) ==
  CASE scheme = "all" -> Str(<<>>)
    [] scheme = "type" -> Str(distill_type(trace))
    [] scheme = "type+message" -> Str(distill_type_message(trace))
    [] scheme = "type+message+location" -> distill_type_message_location(trace)
    [] scheme = "exact" -> Str(trace)

TableAllIsType(scheme, trace) ==
  CASE scheme = "all" -> Str(distill_type(trace))
    [] scheme = "type" -> Str(distill_type(trace))
    [] scheme = "type+message" -> Str(distill_type_message(trace))
    [] scheme = "type+message+location" -> Str(distill_type_message(trace))
    [] scheme = "exact" -> Str(trace)

\* STACK_TRACE_DISTILLING_FUNCTIONS[scheme](trace)
STACK_TRACE_DISTILLING_FUNCTIONS(scheme, trace) ==
  CASE scheme = "all" -> Str(<<>>)
    [] scheme = "type" -> Str(distill_type(trace))
    [] scheme = "type+message" -> Str(distill_type_message(trace))
    [] scheme = "type+message+location" -> Str(distill_type_message(trace))
    [] scheme = "exact" -> Str(trace)

ERROR_PARTITION_SCHEMES == DistillingSchemes \cup {"passfail"}

\* A scheme name outside ERROR_PARTITION_SCHEMES.
UnknownScheme == "bogus"

\* The lookup STACK_TRACE_DISTILLING_FUNCTIONS[scheme] raises KeyError.
RaisesKeyError(outcome1, outcome2, scheme) ==
  /\ scheme # "passfail"
  /\ outcome1.category = FAIL /\ outcome2.category = FAIL
  /\ scheme \notin DistillingSchemes

EquivalentCategoryOnly(outcome1, outcome2, scheme) ==
  IF scheme = "passfail"
  THEN (outcome1.category = PASS) <=> (outcome2.category = PASS)
  ELSE outcome1.category = outcome2.category

EquivalentFirstFails(outcome1, outcome2, scheme) ==
  IF scheme = "passfail"
  THEN (outcome1.category = PASS) <=> (outcome2.category = PASS)
  ELSE IF outcome1.category = FAIL
       THEN outcome2.category # PASS
       ELSE outcome1.category = outcome2.category

\* Defined where RaisesKeyError is false.
are_outcomes_equivalent(outcome1, outcome2, scheme) ==
  IF scheme = "passfail"
  THEN (outcome1.category = PASS) <=> (outcome2.category = PASS)
  ELSE IF outcome1.category = FAIL /\ outcome2.category = FAIL
       THEN STACK_TRACE_DISTILLING_FUNCTIONS(scheme, outcome1.stack_trace)
              = STACK_TRACE_DISTILLING_FUNCTIONS(scheme, outcome2.stack_trace)
       ELSE outcome1.category = outcome2.category

(***************************************************************************)
(* Outcome records.  Of the eight fields of Outcome only test_case,        *)
(* mutant_id, category and stack_trace are read after parsing; timeout,    *)
(* runtime, output_hash and covered_mutants are left out.                  *)
(***************************************************************************)
Outcome(t, m, c, tr) == [test_case |-> t, mutant_id |-> m, category |-> c, stack_trace |-> tr]

\* One iteration of the generator expression of find_killed_mutants.
KillStep(killed, outcome, original, scheme) ==
  IF ~are_outcomes_equivalent(outcome, original, scheme)
  THEN killed \cup {outcome.mutant_id} ELSE killed

RECURSIVE KillFold(_, _, _, _)
KillFold(killed, original, mutated, scheme) ==
  IF mutated = <<>> THEN killed
  ELSE KillFold(KillStep(killed, Head(mutated), original, scheme),
                original, Tail(mutated), scheme)

FindKilledSkipsFirst(original, mutated, scheme) ==
  IF mutated = <<>> THEN {} ELSE KillFold({}, original, Tail(mutated), scheme)

find_killed_mutants(original, mutated, scheme) == KillFold({}, original, mutated, scheme)

RECURSIVE Join(_, _)
\* sep.join(words)
Join(words, sep) ==
  IF words = <<>> THEN <<>>
  ELSE IF Len(words) = 1 THEN <<words[1]>>
  ELSE <<words[1], sep>> \o Join(Tail(words), sep)

FormatRowFromZero(killed, n, originally_passing) ==
  Join([i \in 1..n |-> IF (i - 1) \in killed THEN "1" ELSE "0"]
         \o <<IF originally_passing THEN "+" ELSE "-">>, " ")

format_kill_matrix_row(killed, n, originally_passing) ==
  Join([i \in 1..n |-> IF i \in killed THEN "1" ELSE "0"]
         \o <<IF originally_passing THEN "+" ELSE "-">>, " ")

(***************************************************************************)
(* count_mutants.                                                          *)
(***************************************************************************)
\* re.match(r'\d+(?=:)', line): the number of digits matched, 0 for no match.
LeadingDigits(line) ==
  LET d == PrefixRun(line, Digits)
  IN IF d >= 1 /\ d < Len(line) /\ line[d + 1] = ":" THEN d ELSE 0

RECURSIVE ParseInt(_)
\* int(digits)
ParseInt(digits) ==
  IF digits = <<>> THEN 0
  ELSE 10 * ParseInt(SubSeq(digits, 1, Len(digits) - 1)) + DigitValue(digits[Len(digits)])

RECURSIVE MatchedIds(_)
\* The generator of count_mutants: the ids of the matching lines, in order.
MatchedIds(lines) ==
  IF lines = <<>> THEN <<>>
  ELSE LET d == LeadingDigits(Head(lines))
       IN (IF d > 0 THEN <<ParseInt(SubSeq(Head(lines), 1, d))>> ELSE <<>>)
            \o MatchedIds(Tail(lines))

RECURSIVE MaxOf(_)
\* max() of a non-empty sequence
MaxOf(ids) ==
  IF Len(ids) = 1 THEN ids[1]
  ELSE LET m == MaxOf(Tail(ids)) IN IF ids[1] > m THEN ids[1] ELSE m

\* max() of an empty sequence raises ValueError.
CountRaises(lines) == MatchedIds(lines) = <<>>

CountMutantsLast(lines) == MatchedIds(lines)[Len(MatchedIds(lines))]

count_mutants(lines) == MaxOf(MatchedIds(lines))

(***************************************************************************)
(* group_outcomes_by_test_case.                                            *)
(***************************************************************************)
GroupKeyConstant(outcome) == "t1"

\* key=(lambda outcome: outcome.test_case)
GroupKey(outcome) == outcome.test_case

IsBaselineUpToOne(outcome) == outcome.mutant_id <= 1

\* not (original_outcome.mutant_id != 0)
IsBaseline(outcome) == outcome.mutant_id = 0

(***************************************************************************)
(* Input sets.                                                             *)
(***************************************************************************)
BoundedSeq(S, n) == UNION {[1..k -> S] : k \in 0..n}

Frame1 == <<" at ", "Foo", "(", "Foo", ".java:", "7", ")">>
Frame2 == <<" at ", "Bar", "(", "Bar", ".java:", "8", ")">>

Heads == {<<>>, <<"NPE">>, <<"AE">>, <<"NPE", ":", "Foo">>, <<":", "NPE">>, <<"NPE", ".", "AE">>}
Tails == {<<>>, Frame1, Frame2, <<" at ", "Foo">>, Frame1 \o Frame2,
          Frame1 \o <<"\n">>, <<"\n">> \o Frame1, <<".java:", "7">>}

Traces == {h \o t : h \in Heads, t \in Tails}

\* (category, stack_trace) of the outcomes two of which are classified.
PairOutcomes ==
  {Outcome("t1", 1, FAIL, tr) : tr \in Traces}
    \cup {Outcome("t1", 1, PASS, <<>>), Outcome("t1", 1, CRASH, <<>>),
          Outcome("t1", 1, CRASH, <<"NPE">>)}

KillTraces == {<<"NPE">> \o Frame1, <<"NPE">> \o Frame2, <<"AE">> \o Frame1}

KillShapes == {<<PASS, <<>>>>, <<CRASH, <<>>>>} \cup {<<FAIL, tr>> : tr \in KillTraces}

MutantIds == 0..MaxMutantId

KillOutcomes == {Outcome("t1", m, sh[1], sh[2]) : m \in MutantIds, sh \in KillShapes}

Baselines == {Outcome("t1", 0, sh[1], sh[2]) : sh \in KillShapes}

RunOutcomes ==
  {Outcome(t, m, sh[1], sh[2]) :
     t \in {"t1", "t2"}, m \in MutantIds, sh \in {<<PASS, <<>>>>, <<FAIL, <<"NPE">> \o Frame1>>}}

MutantLines == {<<"1", ":", "Foo">>, <<"3", ":">>, <<"1", "3", ":">>, <<"Foo">>,
                <<"1", "Foo", ":">>, <<":", "1">>, <<"3">>, <<>>}

(***************************************************************************)
(* State.                                                                  *)
(*   call, returned, result : one call of a pure function, its arguments   *)
(*                            and what it returned                         *)
(*   entry .. classified    : one run of the program                       *)
(***************************************************************************)
VARIABLES call, returned, result,
          entry, error_partition_scheme, mutants_file, outcome_matrix_file,
          pc, n_mutants, cursor, original_outcome, killed_mutants,
          output_file, error, classified

fnVars == <<call, returned, result>>
runVars == <<entry, error_partition_scheme, mutants_file, outcome_matrix_file,
             pc, n_mutants, cursor, original_outcome, killed_mutants,
             output_file, error, classified>>
vars == <<call, returned, result,
          entry, error_partition_scheme, mutants_file, outcome_matrix_file,
          pc, n_mutants, cursor, original_outcome, killed_mutants,
          output_file, error, classified>>

NoOutcome == Outcome("", 0, "", <<>>)
NoCall == [fn |-> "none"]

(***************************************************************************)
(* Calls of the pure functions.                                            *)
(***************************************************************************)
RunIdle ==
  /\ entry = "none" /\ error_partition_scheme = "exact"
  /\ mutants_file = <<>> /\ outcome_matrix_file = <<>>
  /\ pc = "idle" /\ n_mutants = 0 /\ cursor = 1
  /\ original_outcome = NoOutcome /\ killed_mutants = {}
  /\ output_file = <<>> /\ error = "none" /\ classified = 0

FnCalls ==
  {[fn |-> "are_outcomes_equivalent", outcome1 |-> a, outcome2 |-> b] :
     a \in PairOutcomes, b \in PairOutcomes}
  \cup
  {[fn |-> "find_killed_mutants", original_outcome |-> o, mutated_outcomes |-> ms] :
     o \in Baselines, ms \in BoundedSeq(KillOutcomes, MaxMutated)}
  \cup
  {[fn |-> "format_kill_matrix_row", killed_mutants |-> K, n_mutants |-> n,
    originally_passing |-> p] :
     K \in SUBSET MutantIds, n \in 0..MaxMutantId, p \in BOOLEAN}

InitFn ==
  /\ call \in FnCalls
  /\ returned = FALSE
  /\ result = <<>>
  /\ RunIdle

\* are_outcomes_equivalent(outcome1, outcome2, s) and, with the arguments
\* exchanged, are_outcomes_equivalent(outcome2, outcome1, s), for every scheme.
ReturnEquivalent ==
  /\ call.fn = "are_outcomes_equivalent" /\ ~returned
  /\ result' = [s \in ERROR_PARTITION_SCHEMES |->
                  [fwd |-> are_outcomes_equivalent(call.outcome1, call.outcome2, s),
                   rev |-> are_outcomes_equivalent(call.outcome2, call.outcome1, s)]]
  /\ returned' = TRUE
  /\ UNCHANGED <<call, runVars>>

\* find_killed_mutants(original_outcome, mutated_outcomes, s) for every scheme.
ReturnKilled ==
  /\ call.fn = "find_killed_mutants" /\ ~returned
  /\ result' = [s \in ERROR_PARTITION_SCHEMES |->
                  find_killed_mutants(call.original_outcome, call.mutated_outcomes, s)]
  /\ returned' = TRUE
  /\ UNCHANGED <<call, runVars>>

ReturnRow ==
  /\ call.fn = "format_kill_matrix_row" /\ ~returned
  /\ result' = format_kill_matrix_row(call.killed_mutants, call.n_mutants,
                                      call.originally_passing)
  /\ returned' = TRUE
  /\ UNCHANGED <<call, runVars>>

NextFn == ReturnEquivalent \/ ReturnKilled \/ ReturnRow

SpecFn == InitFn /\ [][NextFn]_vars

(***************************************************************************)
(* One run: the command line (__main__) or a call of genKillage.           *)
(***************************************************************************)
GoodMutants == <<<<"3", ":">>, <<"Foo">>>>

SampleOutcomes ==
  {<<Outcome("t1", 0, PASS, <<>>), Outcome("t1", 1, FAIL, <<"NPE">> \o Frame1),
     Outcome("t2", 0, FAIL, <<"NPE">> \o Frame1), Outcome("t2", 3, FAIL, <<"NPE">> \o Frame2)>>,
   <<Outcome("t1", 0, PASS, <<>>), Outcome("t1", 2, PASS, <<>>),
     Outcome("t2", 1, PASS, <<>>)>>}

\* (entry point, scheme) of the runs.
RunConfigs == {<<"cli", "exact">>, <<"cli", UnknownScheme>>,
               <<"genKillage", "passfail">>, <<"genKillage", "exact">>,
               <<"genKillage", UnknownScheme>>}

InitRun ==
  /\ call = NoCall /\ returned = FALSE /\ result = <<>>
  /\ \E config \in RunConfigs : entry = config[1] /\ error_partition_scheme = config[2]
  /\ \/ /\ mutants_file = GoodMutants
        /\ outcome_matrix_file \in BoundedSeq(RunOutcomes, MaxRecords)
     \/ /\ mutants_file \in BoundedSeq(MutantLines, MaxLines)
        /\ outcome_matrix_file \in SampleOutcomes
  /\ pc = "start" /\ n_mutants = 0 /\ cursor = 1
  /\ original_outcome = NoOutcome /\ killed_mutants = {}
  /\ output_file = <<>> /\ error = "none" /\ classified = 0

FormatError == "ValueError: expected mutant_id 0"
EmptyError == "ValueError: max() of empty sequence"

Fail(e) ==
  /\ error' = e
  /\ pc' = "done"

\* parser.parse_args(): choices=ERROR_PARTITION_SCHEMES
ParseArgs ==
  /\ pc = "start" /\ entry = "cli"
  /\ error_partition_scheme \in ERROR_PARTITION_SCHEMES
  /\ pc' = "count"
  /\ UNCHANGED <<fnVars, entry, error_partition_scheme, mutants_file, outcome_matrix_file,
                 n_mutants, cursor, original_outcome, killed_mutants, output_file,
                 error, classified>>

ParseArgsRejects ==
  /\ pc = "start" /\ entry = "cli"
  /\ error_partition_scheme \notin ERROR_PARTITION_SCHEMES
  /\ Fail("ArgumentError")
  /\ UNCHANGED <<fnVars, entry, error_partition_scheme, mutants_file, outcome_matrix_file,
                 n_mutants, cursor, original_outcome, killed_mutants, output_file,
                 classified>>

\* genKillage(error_partition_scheme, outcomes, mutants, output)
CallGenKillage ==
  /\ pc = "start" /\ entry = "genKillage"
  /\ pc' = "count"
  /\ UNCHANGED <<fnVars, entry, error_partition_scheme, mutants_file, outcome_matrix_file,
                 n_mutants, cursor, original_outcome, killed_mutants, output_file,
                 error, classified>>

\* n_mutants = count_mutants(mutants_file), then both files are opened.
CountMutants ==
  /\ pc = "count"
  /\ ~CountRaises(mutants_file)
  /\ n_mutants' = count_mutants(mutants_file)
  /\ pc' = "group"
  /\ UNCHANGED <<fnVars, entry, error_partition_scheme, mutants_file, outcome_matrix_file,
                 cursor, original_outcome, killed_mutants, output_file, error, classified>>

CountMutantsRaises ==
  /\ pc = "count"
  /\ CountRaises(mutants_file)
  /\ Fail(EmptyError)
  /\ UNCHANGED <<fnVars, entry, error_partition_scheme, mutants_file, outcome_matrix_file,
                 n_mutants, cursor, original_outcome, killed_mutants, output_file,
                 classified>>

\* groupby is exhausted: the loop and the run end.
Finish ==
  /\ pc = "group"
  /\ cursor > Len(outcome_matrix_file)
  /\ pc' = "done"
  /\ UNCHANGED <<fnVars, entry, error_partition_scheme, mutants_file, outcome_matrix_file,
                 n_mutants, cursor, original_outcome, killed_mutants, output_file,
                 error, classified>>

\* group_outcomes_by_test_case: original_outcome = next(group), a baseline.
NextGroup ==
  /\ pc = "group"
  /\ cursor <= Len(outcome_matrix_file)
  /\ IsBaseline(outcome_matrix_file[cursor])
  /\ original_outcome' = outcome_matrix_file[cursor]
  /\ cursor' = cursor + 1
  /\ killed_mutants' = {}
  /\ pc' = "mutated"
  /\ UNCHANGED <<fnVars, entry, error_partition_scheme, mutants_file, outcome_matrix_file,
                 n_mutants, output_file, error, classified>>

\* group_outcomes_by_test_case: raise ValueError('expected first outcome ...')
NextGroupRaises ==
  /\ pc = "group"
  /\ cursor <= Len(outcome_matrix_file)
  /\ ~IsBaseline(outcome_matrix_file[cursor])
  /\ Fail(FormatError)
  /\ UNCHANGED <<fnVars, entry, error_partition_scheme, mutants_file, outcome_matrix_file,
                 n_mutants, cursor, original_outcome, killed_mutants, output_file,
                 classified>>

InGroup ==
  /\ cursor <= Len(outcome_matrix_file)
  /\ GroupKey(outcome_matrix_file[cursor]) = GroupKey(original_outcome)

\* find_killed_mutants pulls the next outcome of the group and classifies it.
NextMutated ==
  /\ pc = "mutated"
  /\ InGroup
  /\ ~RaisesKeyError(outcome_matrix_file[cursor], original_outcome, error_partition_scheme)
  /\ killed_mutants' = KillStep(killed_mutants, outcome_matrix_file[cursor],
                                original_outcome, error_partition_scheme)
  /\ classified' = classified + 1
  /\ cursor' = cursor + 1
  /\ UNCHANGED <<fnVars, entry, error_partition_scheme, mutants_file, outcome_matrix_file,
                 pc, n_mutants, original_outcome, output_file, error>>

NextMutatedRaises ==
  /\ pc = "mutated"
  /\ InGroup
  /\ RaisesKeyError(outcome_matrix_file[cursor], original_outcome, error_partition_scheme)
  /\ Fail("KeyError")
  /\ UNCHANGED <<fnVars, entry, error_partition_scheme, mutants_file, outcome_matrix_file,
                 n_mutants, cursor, original_outcome, killed_mutants, output_file,
                 classified>>

\* The group is exhausted: the row and '\n' are written.
WriteRow ==
  /\ pc = "mutated"
  /\ ~InGroup
  /\ output_file' = Append(output_file,
                           format_kill_matrix_row(killed_mutants, n_mutants,
                                                  original_outcome.category = PASS))
  /\ pc' = "group"
  /\ UNCHANGED <<fnVars, entry, error_partition_scheme, mutants_file, outcome_matrix_file,
                 n_mutants, cursor, original_outcome, killed_mutants, error, classified>>

Next ==
  \/ ParseArgs \/ ParseArgsRejects \/ CallGenKillage
  \/ CountMutants \/ CountMutantsRaises
  \/ Finish \/ NextGroup \/ NextGroupRaises
  \/ NextMutated \/ NextMutatedRaises \/ WriteRow

Spec == InitRun /\ [][Next]_vars

(***************************************************************************)
(* What the claims speak of, stated over the input files themselves.       *)
(***************************************************************************)
\* The indices at which a maximal run of records of one test case starts.
RunStarts(f) == {i \in 1..Len(f) : i = 1 \/ f[i].test_case # f[i - 1].test_case}

RunEnd(f, s) == Max({e \in s..Len(f) : \A j \in s..e : f[j].test_case = f[s].test_case})

KthRunStart(f, k) == CHOOSE s \in RunStarts(f) : Cardinality({x \in RunStarts(f) : x <= s}) = k

Distinguished(outcome, original, scheme) ==
  IF RaisesKeyError(outcome, original, scheme) THEN FALSE
  ELSE ~are_outcomes_equivalent(outcome, original, scheme)

\* The row of the run of records that starts at s.
RowOfRun(f, s, scheme, n) ==
  LET killed == {f[j].mutant_id :
                   j \in {j \in (s + 1)..RunEnd(f, s) : Distinguished(f[j], f[s], scheme)}}
  IN format_kill_matrix_row(killed, n, f[s].category = PASS)

BadStarts(f) == {s \in RunStarts(f) : f[s].mutant_id # 0}

RunsBefore(f, i) == {s \in RunStarts(f) : s < i}

\* The first k rows of the output are the rows of the first k runs.
RowsAreFirstRuns(k) ==
  /\ Len(output_file) = k
  /\ k <= Cardinality(RunStarts(outcome_matrix_file))
  /\ \A r \in 1..k :
       output_file[r] = RowOfRun(outcome_matrix_file, KthRunStart(outcome_matrix_file, r),
                                 error_partition_scheme, n_mutants)

LineMatches(line) ==
  \E d \in 1..(Len(line) - 1) : /\ \A i \in 1..d : line[i] \in Digits
                                /\ line[d + 1] = ":"

LineId(line) ==
  ParseInt(SubSeq(line, 1, CHOOSE d \in 1..(Len(line) - 1) :
                             /\ \A i \in 1..d : line[i] \in Digits
                             /\ line[d + 1] = ":"))

MatchingLines(lines) == {i \in 1..Len(lines) : LineMatches(lines[i])}

SchemeLegal == error_partition_scheme \in ERROR_PARTITION_SCHEMES

(***************************************************************************)
(* Claims.                                                                 *)
(***************************************************************************)

\* C1: find_killed_mutants returns exactly the ids of the mutated outcomes
\* that are not equivalent to the baseline under the scheme: no id that
\* does not occur in the sequence, and no id all of whose outcomes are
\* equivalent to the baseline.
C1_KilledExactlyTheDistinguished ==
  (call.fn = "find_killed_mutants" /\ returned) =>
    \A s \in ERROR_PARTITION_SCHEMES :
      /\ result[s] = {call.mutated_outcomes[i].mutant_id :
                        i \in {i \in DOMAIN call.mutated_outcomes :
                                 ~are_outcomes_equivalent(call.mutated_outcomes[i],
                                                          call.original_outcome, s)}}
      /\ \A m \in result[s] : \E i \in DOMAIN call.mutated_outcomes :
                                 call.mutated_outcomes[i].mutant_id = m
      /\ \A m \in MutantIds :
           (\A i \in DOMAIN call.mutated_outcomes :
              call.mutated_outcomes[i].mutant_id = m
                => are_outcomes_equivalent(call.mutated_outcomes[i], call.original_outcome, s))
             => m \notin result[s]

C1_Witness ==
  /\ call.fn = "find_killed_mutants" /\ returned
  /\ Len(call.mutated_outcomes) = 2
  /\ call.mutated_outcomes[1].mutant_id # call.mutated_outcomes[2].mutant_id
  /\ result["exact"] = {call.mutated_outcomes[1].mutant_id}
  /\ result["all"] = {}

\* C2: a run that completes without error has written exactly one row per
\* maximal run of consecutive records of one test case, in the order of
\* the runs; a test case that reappears later gets a row of its own.
C2_OneRowPerRunInOrder ==
  (pc = "done" /\ error = "none") =>
    /\ Len(output_file) = Cardinality(RunStarts(outcome_matrix_file))
    /\ RowsAreFirstRuns(Len(output_file))

C2_Witness ==
  /\ pc = "done" /\ error = "none"
  /\ Len(outcome_matrix_file) = 3
  /\ outcome_matrix_file[1].test_case = outcome_matrix_file[3].test_case
  /\ outcome_matrix_file[1].test_case # outcome_matrix_file[2].test_case
  /\ Len(output_file) = 3

\* C3: a run that comes to a group whose first record has a mutant id other
\* than 0 fails there with the format error and stops: the output then
\* holds exactly the rows of the groups before it, as a successful run
\* writes them, and never a row for that group or a later one.  The run
\* does come to the first such group whenever the scheme is legal and the
\* mutant log has a matching line.  A run completes successfully only if
\* every group's first record has mutant id 0.
C3_BadBaselineAborts ==
  /\ (pc = "done" /\ error = FormatError) =>
       /\ BadStarts(outcome_matrix_file) # {}
       /\ cursor = Min(BadStarts(outcome_matrix_file))
       /\ RowsAreFirstRuns(Cardinality(RunsBefore(outcome_matrix_file, cursor)))
  /\ (pc = "done" /\ error = "none") => BadStarts(outcome_matrix_file) = {}
  /\ (/\ pc = "done" /\ BadStarts(outcome_matrix_file) # {}
      /\ SchemeLegal /\ MatchingLines(mutants_file) # {}) => error = FormatError
  /\ BadStarts(outcome_matrix_file) # {} =>
       Len(output_file) <= Cardinality(RunsBefore(outcome_matrix_file,
                                                  Min(BadStarts(outcome_matrix_file))))

C3_Witness ==
  /\ pc = "done" /\ error = FormatError
  /\ Len(output_file) = 1
  /\ cursor = 2
  /\ Len(outcome_matrix_file) = 3
  /\ outcome_matrix_file[3].test_case # outcome_matrix_file[2].test_case
  /\ outcome_matrix_file[3].mutant_id = 0

\* C4: format_kill_matrix_row yields n+1 tokens separated by single spaces;
\* token i (1 <= i <= n) is "1" if i is in the killed set and "0"
\* otherwise, whatever else the set holds; the last token is "+" if the
\* baseline passed and "-" otherwise.
C4_RowShape ==
  (call.fn = "format_kill_matrix_row" /\ returned) =>
    /\ Len(result) = 2 * call.n_mutants + 1
    /\ \A i \in 1..call.n_mutants :
         /\ result[2 * i - 1] = (IF i \in call.killed_mutants THEN "1" ELSE "0")
         /\ result[2 * i] = " "
    /\ result[2 * call.n_mutants + 1] = (IF call.originally_passing THEN "+" ELSE "-")

C4_Witness ==
  /\ call.fn = "format_kill_matrix_row" /\ returned
  /\ call.killed_mutants = {0, 2}
  /\ call.n_mutants = 1
  /\ result = <<"0", " ", "+">>

\* C5 as stated: under exact two outcomes are equivalent iff both are FAIL
\* with identical stack traces, or both are PASS.
C5_ExactOnlyFailOrPass ==
  (call.fn = "are_outcomes_equivalent" /\ returned) =>
    (result["exact"].fwd <=>
       \/ /\ call.outcome1.category = FAIL /\ call.outcome2.category = FAIL
          /\ call.outcome1.stack_trace = call.outcome2.stack_trace
       \/ call.outcome1.category = PASS /\ call.outcome2.category = PASS)

\* C5 amended: under exact two outcomes are equivalent iff both are FAIL
\* with identical stack traces, or both have the same category other than
\* FAIL (both PASS, both crash, ...), whatever their stack traces.
C5_ExactSameCategory ==
  (call.fn = "are_outcomes_equivalent" /\ returned) =>
    (result["exact"].fwd <=>
       \/ /\ call.outcome1.category = FAIL /\ call.outcome2.category = FAIL
          /\ call.outcome1.stack_trace = call.outcome2.stack_trace
       \/ /\ call.outcome1.category # FAIL
          /\ call.outcome1.category = call.outcome2.category)

C5_Witness ==
  /\ call.fn = "are_outcomes_equivalent" /\ returned
  /\ call.outcome1.category = CRASH /\ call.outcome2.category = CRASH
  /\ call.outcome1.stack_trace # call.outcome2.stack_trace
  /\ result["exact"].fwd

\* C6: a scheme outside the six legal values is rejected before processing
\* begins: under it no outcome is classified and no row is written, on the
\* command line and in genKillage.
C6_UnknownSchemeRejected ==
  ~SchemeLegal => (classified = 0 /\ output_file = <<>>)

\* C7: for every legal scheme the classifier gives the same verdict with
\* its two outcomes exchanged, so the kill set is the same whichever
\* argument the baseline is.
C7_Symmetric ==
  /\ (call.fn = "are_outcomes_equivalent" /\ returned) =>
       \A s \in ERROR_PARTITION_SCHEMES : result[s].fwd = result[s].rev
  /\ (call.fn = "find_killed_mutants" /\ returned) =>
       \A s \in ERROR_PARTITION_SCHEMES :
         result[s] = {call.mutated_outcomes[i].mutant_id :
                        i \in {i \in DOMAIN call.mutated_outcomes :
                                 ~are_outcomes_equivalent(call.original_outcome,
                                                          call.mutated_outcomes[i], s)}}

C7_Witness ==
  /\ call.fn = "are_outcomes_equivalent" /\ returned
  /\ call.outcome1.category = FAIL /\ call.outcome2.category = FAIL
  /\ call.outcome1.stack_trace # call.outcome2.stack_trace
  /\ result["type"].fwd /\ result["type"].rev
  /\ ~result["type+message"].fwd /\ ~result["type+message"].rev

FineSchemes == {"exact", "type", "type+message", "type+message+location"}

\* C10: equivalence under exact, type, type+message or
\* type+message+location implies equivalence under all, which implies
\* equivalence under passfail; so the kill set under passfail is within the
\* kill set under all, which is within the kill set under each of the four.
C10_Coarsening ==
  /\ (call.fn = "are_outcomes_equivalent" /\ returned) =>
       /\ \A s \in FineSchemes : result[s].fwd => result["all"].fwd
       /\ result["all"].fwd => result["passfail"].fwd
  /\ (call.fn = "find_killed_mutants" /\ returned) =>
       /\ result["passfail"] \subseteq result["all"]
       /\ \A s \in FineSchemes : result["all"] \subseteq result[s]

C10_Witness ==
  /\ call.fn = "find_killed_mutants" /\ returned
  /\ result["passfail"] = {}
  /\ result["all"] = {1}
  /\ result["exact"] = {1, 2}

\* C8: count_mutants yields the largest leading integer of the lines that
\* begin with <integer>: and ignores the other lines; when no line matches
\* it fails, and the run ends in that error with no row written.
C8_CountIsMaxOrFails ==
  /\ (pc \in {"group", "mutated"} \/ (pc = "done" /\ error \in {"none", FormatError, "KeyError"})) =>
       /\ MatchingLines(mutants_file) # {}
       /\ n_mutants = Max({LineId(mutants_file[i]) : i \in MatchingLines(mutants_file)})
  /\ MatchingLines(mutants_file) = {} =>
       /\ output_file = <<>> /\ classified = 0
       /\ (pc = "done" /\ error # "ArgumentError") => error = EmptyError

C8_Witness ==
  /\ pc = "done" /\ error = "none"
  /\ Len(mutants_file) = 3
  /\ MatchingLines(mutants_file) = {1, 3}
  /\ LineId(mutants_file[1]) > LineId(mutants_file[3])
  /\ n_mutants = LineId(mutants_file[1])
  /\ Len(output_file) = 2

====
